---- MODULE Spec2Model ----
(***************************************************************************)
(* Model of skills/revealjs/scripts/create_presentation.py: the outline    *)
(* parser parse_outline, the renderer generate_slide_html and the          *)
(* orchestration in create_presentation and main.                          *)
(*                                                                         *)
(* A Python string is a sequence of one-character strings, so that strip,  *)
(* startswith, split and lower are computed and not assumed.  A text is    *)
(* held as the list text.split('\n') of its lines.                         *)
(***************************************************************************)
EXTENDS Integers, Sequences, FiniteSets, TLC

VARIABLES
    pc,              \* position in main / create_presentation / parse_outline
    argv_len,        \* len(sys.argv)
    outline_exists,  \* Path(outline_path).exists()
    lines,           \* text.split('\n') of the outline read
    idx,             \* index of the line the for loop reads next
    slides,          \* parse_outline: slides
    current_slide,   \* parse_outline: current_slide
    in_code_block,   \* parse_outline: in_code_block
    code_lang,       \* parse_outline: code_lang
    success,         \* main: success, the value create_presentation returned
    output_file,     \* what Path(output_path).write_text stored, if anything
    stdout,          \* the lines printed
    exit_status      \* the argument of sys.exit, -1 while running

vars == <<pc, argv_len, outline_exists, lines, idx, slides, current_slide,
          in_code_block, code_lang, success, output_file, stdout, exit_status>>

parse_vars == <<slides, current_slide, in_code_block, code_lang>>

(***************************************************************************)
(* Bounds of the model.                                                    *)
(***************************************************************************)
MaxLines == 4

(***************************************************************************)
(* Python string operations.                                               *)
(***************************************************************************)
Whitespace == {" ", "\t"}

UpperCase == <<"A", "B", "C", "D", "E", "F", "G", "H", "I", "J", "K", "L", "M",
               "N", "O", "P", "Q", "R", "S", "T", "U", "V", "W", "X", "Y", "Z">>
LowerCase == <<"a", "b", "c", "d", "e", "f", "g", "h", "i", "j", "k", "l", "m",
               "n", "o", "p", "q", "r", "s", "t", "u", "v", "w", "x", "y", "z">>

lower_char(c) ==
    IF \E i \in 1..Len(UpperCase) : UpperCase[i] = c
    THEN LowerCase[CHOOSE i \in 1..Len(UpperCase) : UpperCase[i] = c]
    ELSE c

\* str.lower()
lower(s) == [i \in 1..Len(s) |-> lower_char(s[i])]

RECURSIVE lstrip(_)
lstrip(s) == IF s # <<>> /\ Head(s) \in Whitespace THEN lstrip(Tail(s)) ELSE s

RECURSIVE rstrip(_)
rstrip(s) ==
    IF s # <<>> /\ s[Len(s)] \in Whitespace
    THEN rstrip(SubSeq(s, 1, Len(s) - 1))
    ELSE s

\* str.strip()
strip(s) == rstrip(lstrip(s))

\* str.startswith(p)
startswith(s, p) == Len(s) >= Len(p) /\ SubSeq(s, 1, Len(p)) = p

\* s[n:]
from(s, n) == SubSeq(s, n + 1, Len(s))

\* c in s
contains(s, c) == \E i \in 1..Len(s) : s[i] = c

\* s.split(c, 1) of a string that contains c: <<key, value>>
split_first(s, c) ==
    LET i == CHOOSE j \in 1..Len(s) :
                 s[j] = c /\ \A k \in 1..(j - 1) : s[k] # c
    IN  <<SubSeq(s, 1, i - 1), SubSeq(s, i + 1, Len(s))>>

(***************************************************************************)
(* String literals of the program.                                         *)
(***************************************************************************)
\* The backquote cannot be written in a TLA+ string: the model writes the
\* character as "~", which the program and the outlines use nowhere else.
FENCE == <<"~", "~", "~">>
TEXT_LANG == <<"t", "e", "x", "t">>
PRE_CLOSE == <<"<", "/", "c", "o", "d", "e", ">", "<", "/", "p", "r", "e", ">">>
SLIDE_MARK == <<"#", " ">>
HEADING_MARK == <<"#", "#", " ">>
TITLE_SLIDE == <<"t", "i", "t", "l", "e", " ", "s", "l", "i", "d", "e">>
UL_OPEN == <<"<", "u", "l", ">">>
UL_CLOSE == <<"<", "/", "u", "l", ">">>
LI_OPEN == <<" ", " ", "<", "l", "i", ">">>
KEY_TITLE == <<"T", "i", "t", "l", "e">>
KEY_SUBTITLE == <<"S", "u", "b", "t", "i", "t", "l", "e">>
KEY_AUTHOR == <<"A", "u", "t", "h", "o", "r">>
KEY_DATE == <<"D", "a", "t", "e">>
MetadataKeys == {KEY_TITLE, KEY_SUBTITLE, KEY_AUTHOR, KEY_DATE}

\* the f-string of line 93: pre, code with class code_lang, data-trim
pre_open(lang) ==
    <<"<", "p", "r", "e", ">", "<", "c", "o", "d", "e", " ",
      "c", "l", "a", "s", "s", "=", "\"">>
    \o lang
    \o <<"\"", " ", "d", "a", "t", "a", "-", "t", "r", "i", "m", ">">>

\* f'<h2>{line[3:].strip()}</h2>'
h2(line) == <<"<", "h", "2", ">">> \o strip(from(line, 3)) \o <<"<", "/", "h", "2", ">">>

\* f'  <li>{line.strip()[1:].strip()}</li>'
li(line) == LI_OPEN \o strip(from(strip(line), 1)) \o <<"<", "/", "l", "i", ">">>

\* f'<p>{line.strip()}</p>'
p(line) == <<"<", "p", ">">> \o strip(line) \o <<"<", "/", "p", ">">>

(***************************************************************************)
(* Values.                                                                 *)
(***************************************************************************)
\* Python's None, for current_slide and for the unwritten output file
None == [type |-> "None"]
\* Python's None for code_lang, which is otherwise a string
NoLang == <<"None">>

\* the outline lines the model reads
OutlineLines == {
    <<"#", " ", "A">>,                                               \* '# A'
    <<"#", " ", "T", "i", "t", "l", "e", " ", "S", "l", "i", "d", "e">>, \* '# Title Slide'
    <<"#", "#", " ", "H">>,                                          \* '## H'
    <<"-", " ", "a">>,                                               \* '- a'
    <<" ", "-", "b", ":">>,                                          \* ' -b:'
    <<"p">>,                                                         \* 'p'
    <<>>,                                                            \* ''
    <<"T", "i", "t", "l", "e", ":", " ", "X">>,                      \* 'Title: X'
    <<"T", "i", "t", "l", "e", ":", "Y">>,                           \* 'Title:Y'
    <<"t", "i", "t", "l", "e", ":", " ", "X">>,                      \* 'title: X'
    <<" ", "A", "u", "t", "h", "o", "r", " ", ":", " ", "Z", ":", "w">>, \* ' Author : Z:w'
    <<"k", ":", " ", "v">>,                                          \* 'k: v'
    <<" ", "~", "~", "~", " ", "p", "y">>                            \* indented fence, tag py
}

\* text.split('\n') is never empty: '' splits into ['']
Outlines == UNION {[1..n -> OutlineLines] : n \in 1..MaxLines}

(***************************************************************************)
(* parse_outline: the decisions and updates of the loop body.              *)
(***************************************************************************)
\* `if current_slide:` -- None is false, a slide dict (four keys) is true
truthy(cs) == cs # None

\* line.strip().startswith(FENCE)
is_fence(line) == startswith(strip(line), FENCE)

\* line.strip()[3:].strip() or 'text'
fence_lang(line) ==
    LET tag == strip(from(strip(line), 3))
    IN  IF tag # <<>> THEN tag ELSE TEXT_LANG

\* `if current_slide: current_slide['content'].append(frag)`
append_content(cs, frag) ==
    IF truthy(cs) THEN [cs EXCEPT !.content = Append(@, frag)] ELSE cs

\* mutant: the slide under construction is dropped instead of committed
commit_dropped(ss, cs) == ss

\* `if current_slide: slides.append(current_slide)` of the new-slide branch
commit(ss, cs) == IF truthy(cs) THEN Append(ss, cs) ELSE ss

\* the dict built for a new-slide line
new_slide(line) ==
    LET slide_title == strip(from(line, 2))
    IN  [type     |-> IF lower(slide_title) = TITLE_SLIDE THEN "title" ELSE "content",
         title    |-> slide_title,
         content  |-> <<>>,
         metadata |-> <<>>]

\* mutant: the key is compared in lower case
set_metadata_any_case(cs, line) ==
    LET kv    == split_first(line, ":")
        key   == strip(kv[1])
        value == strip(kv[2])
    IN  IF truthy(cs) /\ lower(key) \in {lower(k) : k \in MetadataKeys}
        THEN [cs EXCEPT !.metadata = (lower(key) :> value) @@ @]
        ELSE cs

\* mutant: a key that is already set keeps its first value
set_metadata_first_wins(cs, line) ==
    LET kv    == split_first(line, ":")
        key   == strip(kv[1])
        value == strip(kv[2])
    IN  IF truthy(cs) /\ key \in MetadataKeys
        THEN [cs EXCEPT !.metadata = @ @@ (lower(key) :> value)]
        ELSE cs

\* mutant: only a Title slide stores metadata
set_metadata_title_only(cs, line) ==
    LET kv    == split_first(line, ":")
        key   == strip(kv[1])
        value == strip(kv[2])
    IN  IF truthy(cs) /\ cs.type = "title" /\ key \in MetadataKeys
        THEN [cs EXCEPT !.metadata = (lower(key) :> value) @@ @]
        ELSE cs

\* mutant: a line with an unknown key becomes a paragraph
set_metadata_else_paragraph(cs, line) ==
    LET kv    == split_first(line, ":")
        key   == strip(kv[1])
        value == strip(kv[2])
    IN  IF truthy(cs) /\ key \in MetadataKeys
        THEN [cs EXCEPT !.metadata = (lower(key) :> value) @@ @]
        ELSE append_content(cs, p(line))

\* the metadata branch: split on the first colon, strip, store a known key
set_metadata(cs, line) ==
    LET kv    == split_first(line, ":")
        key   == strip(kv[1])
        value == strip(kv[2])
    IN  IF truthy(cs) /\ key \in MetadataKeys
        THEN [cs EXCEPT !.metadata = (lower(key) :> value) @@ @]
        ELSE cs

\* the backward scan `for i in range(len(content) - 1, -1, -1)` from fragment
\* i down: TRUE when it meets the list-open fragment before a list-close one
RECURSIVE scan_back(_, _)
scan_back(content, i) ==
    IF i = 0 THEN FALSE
    ELSE IF content[i] = UL_OPEN THEN TRUE
    ELSE IF content[i] = UL_CLOSE THEN FALSE
    ELSE scan_back(content, i - 1)

\* needs_ul after the scan of the bullet branch
needs_ul(content) == ~scan_back(content, Len(content))

\* has_open_list after the scan of the close-list branch
has_open_list(content) == scan_back(content, Len(content))

\* the bullet branch
add_bullet(cs, line) ==
    IF truthy(cs)
    THEN LET opened == IF needs_ul(cs.content)
                       THEN Append(cs.content, UL_OPEN)
                       ELSE cs.content
         IN  [cs EXCEPT !.content = Append(opened, li(line))]
    ELSE cs

\* the branch `elif current_slide and current_slide['content']`
close_list(cs, line) ==
    IF has_open_list(cs.content) /\ strip(line) # <<>>
    THEN [cs EXCEPT !.content = Append(Append(@, UL_CLOSE), p(line))]
    ELSE IF strip(line) # <<>>
    THEN [cs EXCEPT !.content = Append(@, p(line))]
    ELSE cs

\* mutant: the last slide is added as it stands
close_last_never(cs) == cs

\* after the loop: `if content and content[-1].startswith('  <li>')`
close_last(cs) ==
    IF cs.content # <<>> /\ startswith(cs.content[Len(cs.content)], LI_OPEN)
    THEN [cs EXCEPT !.content = Append(@, UL_CLOSE)]
    ELSE cs

\* mutant: the in_code_block test comes after the new-slide, heading, metadata
\* and bullet tests
Branch_code_late(line, in_code, cs) ==
    IF is_fence(line) THEN "fence"
    ELSE IF startswith(line, SLIDE_MARK) THEN "slide"
    ELSE IF startswith(line, HEADING_MARK) THEN "heading"
    ELSE IF contains(line, ":") /\ ~startswith(strip(line), <<"-">>) THEN "metadata"
    ELSE IF startswith(strip(line), <<"-">>) THEN "bullet"
    ELSE IF in_code THEN "code"
    ELSE IF truthy(cs) /\ cs.content # <<>> THEN "close_list"
    ELSE IF strip(line) # <<>> THEN "regular"
    ELSE "none"

\* the branch of the if/elif chain that a line takes
Branch(line, in_code, cs) ==
    IF is_fence(line) THEN "fence"
    ELSE IF in_code THEN "code"
    ELSE IF startswith(line, SLIDE_MARK) THEN "slide"
    ELSE IF startswith(line, HEADING_MARK) THEN "heading"
    ELSE IF contains(line, ":") /\ ~startswith(strip(line), <<"-">>) THEN "metadata"
    ELSE IF startswith(strip(line), <<"-">>) THEN "bullet"
    ELSE IF truthy(cs) /\ cs.content # <<>> THEN "close_list"
    ELSE IF strip(line) # <<>> THEN "regular"
    ELSE "none"

(***************************************************************************)
(* generate_slide_html and the document.  A string of several lines is     *)
(* the sequence of its lines, each written without its final newline.      *)
(***************************************************************************)
\* mutant: an empty value falls back to the default too (`md.get(k) or default`)
get_or_default(md, k, default) == IF k \in DOMAIN md /\ md[k] # <<>> THEN md[k] ELSE default

\* dict.get(k, default)
get(md, k, default) == IF k \in DOMAIN md THEN md[k] ELSE default

generate_slide_html(slide) ==
    IF slide.type = "title"
    THEN LET title    == get(slide.metadata, <<"t", "i", "t", "l", "e">>,
                             <<"P", "r", "e", "s", "e", "n", "t", "a", "t", "i", "o", "n",
                               " ", "T", "i", "t", "l", "e">>)
             subtitle == get(slide.metadata, <<"s", "u", "b", "t", "i", "t", "l", "e">>, <<>>)
             author   == get(slide.metadata, <<"a", "u", "t", "h", "o", "r">>, <<>>)
             date     == get(slide.metadata, <<"d", "a", "t", "e">>, <<>>)
             ind8     == <<" ", " ", " ", " ", " ", " ", " ", " ">>
             ind10    == ind8 \o <<" ", " ">>
         IN  <<<<" ", " ", " ", " ", " ", " ", "<", "s", "e", "c", "t", "i", "o", "n", ">">>>>
             \o <<ind8 \o <<"<", "h", "1", ">">> \o title \o <<"<", "/", "h", "1", ">">>>>
             \o (IF subtitle # <<>>
                 THEN <<ind8 \o <<"<", "h", "3", ">">> \o subtitle \o <<"<", "/", "h", "3", ">">>>>
                 ELSE <<>>)
             \o (IF author # <<>> \/ date # <<>>
                 THEN <<ind8 \o <<"<", "p", ">">>>>
                      \o (IF author # <<>>
                          THEN <<ind10 \o <<"<", "s", "m", "a", "l", "l", ">">> \o author
                                 \o <<"<", "/", "s", "m", "a", "l", "l", ">", "<", "b", "r", ">">>>>
                          ELSE <<>>)
                      \o (IF date # <<>>
                          THEN <<ind10 \o <<"<", "s", "m", "a", "l", "l", ">">> \o date
                                 \o <<"<", "/", "s", "m", "a", "l", "l", ">">>>>
                          ELSE <<>>)
                      \o <<ind8 \o <<"<", "/", "p", ">">>>>
                 ELSE <<>>)
             \o <<<<" ", " ", " ", " ", " ", " ", "<", "/", "s", "e", "c", "t", "i", "o", "n", ">">>>>
    ELSE <<<<" ", " ", " ", " ", " ", " ", "<", "s", "e", "c", "t", "i", "o", "n", ">">>>>
         \o [i \in 1..Len(slide.content) |->
                <<" ", " ", " ", " ", " ", " ", " ", " ">> \o slide.content[i]]
         \o <<<<" ", " ", " ", " ", " ", " ", "<", "/", "s", "e", "c", "t", "i", "o", "n", ">">>>>

\* the title handed to TEMPLATE_START.format
document_title(ss) ==
    IF ss # <<>> /\ ss[1].type = "title"
    THEN get(ss[1].metadata, <<"t", "i", "t", "l", "e">>,
             <<"P", "r", "e", "s", "e", "n", "t", "a", "t", "i", "o", "n">>)
    ELSE <<"P", "r", "e", "s", "e", "n", "t", "a", "t", "i", "o", "n">>

RECURSIVE sections(_)
\* the loop `for slide in slides: html += generate_slide_html(slide)`
sections(ss) ==
    IF ss = <<>> THEN <<>> ELSE generate_slide_html(Head(ss)) \o sections(Tail(ss))

\* the html written: TEMPLATE_START with its title, the sections, TEMPLATE_END
document(ss) == [type |-> "html", title |-> document_title(ss), sections |-> sections(ss)]

\* mutant: the two statuses are exchanged
exit_code_swapped(ok) == IF ok THEN 1 ELSE 0

\* sys.exit(0 if success else 1)
exit_code(ok) == IF ok THEN 0 ELSE 1

\* `if not slides:` in create_presentation
no_slides(ss) == ss = <<>>

(***************************************************************************)
(* The program.                                                            *)
(***************************************************************************)
Init ==
    /\ pc = "main"
    /\ argv_len \in {2, 3, 4}
    /\ outline_exists \in BOOLEAN
    /\ lines = <<>>
    /\ idx = 1
    /\ slides = <<>>
    /\ current_slide = None
    /\ in_code_block = FALSE
    /\ code_lang = NoLang
    /\ success = FALSE
    /\ output_file = None
    /\ stdout = <<>>
    /\ exit_status = -1

\* main: `if len(sys.argv) != 3`
MainUsage ==
    /\ pc = "main"
    /\ argv_len # 3
    /\ stdout' = stdout \o <<"Usage: python create_presentation.py outline.txt output.html",
                              "\nOutline format:", "  # Title Slide",
                              "  Title: My Presentation", "  Author: John Doe", "  ",
                              "  # Slide 1", "  ## Topic", "  - Point 1", "  - Point 2">>
    /\ exit_status' = 1
    /\ pc' = "exit"
    /\ UNCHANGED <<argv_len, outline_exists, lines, idx, parse_vars, success, output_file>>

\* main: `if not Path(outline_path).exists()`
MainNotFound ==
    /\ pc = "main"
    /\ argv_len = 3
    /\ ~outline_exists
    /\ stdout' = Append(stdout, "Error: Outline file not found: outline.txt")
    /\ exit_status' = 1
    /\ pc' = "exit"
    /\ UNCHANGED <<argv_len, outline_exists, lines, idx, parse_vars, success, output_file>>

\* main calls create_presentation, which reads the outline and enters
\* parse_outline: the locals of lines 81-84 and the split of line 86
ReadOutline ==
    /\ pc = "main"
    /\ argv_len = 3
    /\ outline_exists
    /\ lines' \in Outlines
    /\ idx' = 1
    /\ slides' = <<>>
    /\ current_slide' = None
    /\ in_code_block' = FALSE
    /\ code_lang' = NoLang
    /\ pc' = "parse"
    /\ UNCHANGED <<argv_len, outline_exists, success, output_file, stdout, exit_status>>

\* the line the loop reads and the branch it takes
AtLine(branch) ==
    /\ pc = "parse"
    /\ idx <= Len(lines)
    /\ Branch(lines[idx], in_code_block, current_slide) = branch

Advance ==
    /\ idx' = idx + 1
    /\ UNCHANGED <<pc, argv_len, outline_exists, lines, success, output_file, stdout,
                   exit_status>>

\* lines 88-98
Fence ==
    /\ AtLine("fence")
    /\ in_code_block' = ~in_code_block
    /\ IF in_code_block'
       THEN /\ code_lang' = fence_lang(lines[idx])
            /\ current_slide' = append_content(current_slide, pre_open(code_lang'))
       ELSE /\ current_slide' = append_content(current_slide, PRE_CLOSE)
            /\ code_lang' = NoLang
    /\ UNCHANGED slides
    /\ Advance

\* lines 100-103
CodeLine ==
    /\ AtLine("code")
    /\ current_slide' = append_content(current_slide, lines[idx])
    /\ UNCHANGED <<slides, in_code_block, code_lang>>
    /\ Advance

\* lines 106-116
NewSlide ==
    /\ AtLine("slide")
    /\ slides' = commit(slides, current_slide)
    /\ current_slide' = new_slide(lines[idx])
    /\ UNCHANGED <<in_code_block, code_lang>>
    /\ Advance

\* lines 119-121
Heading ==
    /\ AtLine("heading")
    /\ current_slide' = append_content(current_slide, h2(lines[idx]))
    /\ UNCHANGED <<slides, in_code_block, code_lang>>
    /\ Advance

\* lines 124-129
Metadata ==
    /\ AtLine("metadata")
    /\ current_slide' = set_metadata(current_slide, lines[idx])
    /\ UNCHANGED <<slides, in_code_block, code_lang>>
    /\ Advance

\* lines 132-146
Bullet ==
    /\ AtLine("bullet")
    /\ current_slide' = add_bullet(current_slide, lines[idx])
    /\ UNCHANGED <<slides, in_code_block, code_lang>>
    /\ Advance

\* lines 149-163
CloseList ==
    /\ AtLine("close_list")
    /\ current_slide' = close_list(current_slide, lines[idx])
    /\ UNCHANGED <<slides, in_code_block, code_lang>>
    /\ Advance

\* lines 166-168
Regular ==
    /\ AtLine("regular")
    /\ current_slide' = append_content(current_slide, p(lines[idx]))
    /\ UNCHANGED <<slides, in_code_block, code_lang>>
    /\ Advance

\* a blank line that no branch of the chain takes
BlankLine ==
    /\ AtLine("none")
    /\ UNCHANGED parse_vars
    /\ Advance

\* lines 170-177: the loop is over, the last slide is closed and added
ParseEnd ==
    /\ pc = "parse"
    /\ idx > Len(lines)
    /\ IF truthy(current_slide)
       THEN /\ current_slide' = close_last(current_slide)
            /\ slides' = Append(slides, current_slide')
       ELSE UNCHANGED <<current_slide, slides>>
    /\ pc' = "parsed"
    /\ UNCHANGED <<argv_len, outline_exists, lines, idx, in_code_block, code_lang,
                   success, output_file, stdout, exit_status>>

\* create_presentation, lines 218-220
CreateNoSlides ==
    /\ pc = "parsed"
    /\ no_slides(slides)
    /\ stdout' = Append(stdout, "Error: No slides found in outline")
    /\ success' = FALSE
    /\ pc' = "returned"
    /\ UNCHANGED <<argv_len, outline_exists, lines, idx, parse_vars, output_file,
                   exit_status>>

\* create_presentation, lines 222-239
CreateWrite ==
    /\ pc = "parsed"
    /\ ~no_slides(slides)
    /\ output_file' = document(slides)
    /\ stdout' = stdout \o <<"Created presentation: output.html",
                              "Slides: " \o ToString(Len(slides))>>
    /\ success' = TRUE
    /\ pc' = "returned"
    /\ UNCHANGED <<argv_len, outline_exists, lines, idx, parse_vars, exit_status>>

\* main, line 264
MainExit ==
    /\ pc = "returned"
    /\ exit_status' = exit_code(success)
    /\ pc' = "exit"
    /\ UNCHANGED <<argv_len, outline_exists, lines, idx, parse_vars, success,
                   output_file, stdout>>

Next ==
    \/ MainUsage
    \/ MainNotFound
    \/ ReadOutline
    \/ Fence
    \/ CodeLine
    \/ NewSlide
    \/ Heading
    \/ Metadata
    \/ Bullet
    \/ CloseList
    \/ Regular
    \/ BlankLine
    \/ ParseEnd
    \/ CreateNoSlides
    \/ CreateWrite
    \/ MainExit

Spec == Init /\ [][Next]_vars

(***************************************************************************)
(* What the claims speak of, read off the outline alone.                   *)
(***************************************************************************)
\* the fence delimiter lines before line i
FencesBefore(ls, i) == Cardinality({j \in 1..(i - 1) : startswith(strip(ls[j]), FENCE)})

\* line i lies outside every fenced block and is no fence delimiter
Outside(ls, i) == FencesBefore(ls, i) % 2 = 0 /\ ~startswith(strip(ls[i]), FENCE)

\* line i is a new-slide marker line
IsMarker(ls, i) == Outside(ls, i) /\ startswith(ls[i], <<"#", " ">>)

\* the trimmed trailing texts of the new-slide marker lines among ls[i..], in order
RECURSIVE MarkerTexts(_, _)
MarkerTexts(ls, i) ==
    IF i > Len(ls) THEN <<>>
    ELSE (IF IsMarker(ls, i) THEN <<strip(SubSeq(ls[i], 3, Len(ls[i])))>> ELSE <<>>)
         \o MarkerTexts(ls, i + 1)

Headings(ss) == [k \in 1..Len(ss) |-> ss[k].title]

\* a body has an open list: a list-open fragment with no list-close after it
HasOpenUl(c) ==
    \E i \in 1..Len(c) : c[i] = UL_OPEN /\ \A j \in (i + 1)..Len(c) : c[j] # UL_CLOSE

\* a fragment is a list item
IsListItem(f) ==
    /\ startswith(f, <<" ", " ", "<", "l", "i", ">">>)
    /\ Len(f) >= 11
    /\ SubSeq(f, Len(f) - 4, Len(f)) = <<"<", "/", "l", "i", ">">>

\* the loop is about to read a line outside a fenced block, with a slide under
\* construction
ReadsOutside ==
    /\ pc = "parse"
    /\ idx <= Len(lines)
    /\ ~in_code_block
    /\ ~startswith(strip(lines[idx]), FENCE)
    /\ current_slide # None

(***************************************************************************)
(* C1: parse_outline returns one slide per new-slide marker line, in       *)
(* source order: the headings of the result are the trimmed trailing texts *)
(* of the marker lines, so there are as many slides as marker lines and    *)
(* the result is non-empty when the outline has a marker line.  A marker   *)
(* line is a line that starts with '# ' outside every fenced block.        *)
(***************************************************************************)
Thm_C1_OneSlidePerMarker ==
    pc = "parsed" =>
        /\ Headings(slides) = MarkerTexts(lines, 1)
        /\ Len(slides) = Cardinality({i \in 1..Len(lines) : IsMarker(lines, i)})
        /\ ((\E i \in 1..Len(lines) : IsMarker(lines, i)) => slides # <<>>)

\* two slides with different headings came out in source order, from an outline
\* that also holds a '# ' line inside a fenced block
Wit_C1_TwoSlides ==
    /\ pc = "parsed"
    /\ Len(slides) = 2
    /\ slides[1].title = <<"A">>
    /\ slides[2].title = <<"T", "i", "t", "l", "e", " ", "S", "l", "i", "d", "e">>
    /\ \E i \in 1..Len(lines) : startswith(lines[i], <<"#", " ">>) /\ ~IsMarker(lines, i)

(***************************************************************************)
(* C2: with a slide under construction, a fence line that opens a block    *)
(* appends the opening code fragment carrying the line's tag, every line   *)
(* up to the closing fence is appended to the body unmodified, and the     *)
(* closing fence appends the closing code fragment; none of these lines    *)
(* starts a slide, sets metadata or adds any other fragment.               *)
(***************************************************************************)
\* the tag of a fence line: what follows the fence marker, trimmed
TagOf(line) ==
    LET t == strip(line)
    IN  CHOOSE tag \in {SubSeq(t, k, Len(t)) : k \in 4..(Len(t) + 1)} :
            /\ tag = <<>> \/ (tag[1] \notin Whitespace)
            /\ \A k \in 4..(Len(t) - Len(tag)) : t[k] \in Whitespace

Thm_C2_FencedVerbatim ==
    [][(pc = "parse" /\ idx <= Len(lines) /\ current_slide # None) =>
        LET line  == lines[idx]
            fence == startswith(strip(line), FENCE)
            body  == current_slide.content
        IN  /\ (fence /\ ~in_code_block /\ TagOf(line) # <<>>) =>
                   /\ current_slide'.content =
                          Append(body, <<"<", "p", "r", "e", ">", "<", "c", "o", "d", "e", " ",
                                         "c", "l", "a", "s", "s", "=", "\"">>
                                       \o TagOf(line)
                                       \o <<"\"", " ", "d", "a", "t", "a", "-", "t", "r", "i",
                                            "m", ">">>)
                   /\ in_code_block'
            /\ (~fence /\ in_code_block) =>
                   /\ current_slide'.content = Append(body, line)
                   /\ in_code_block'
            /\ (fence /\ in_code_block) =>
                   /\ current_slide'.content = Append(body, PRE_CLOSE)
                   /\ ~in_code_block'
            /\ (fence \/ in_code_block) =>
                   /\ slides' = slides
                   /\ current_slide'.metadata = current_slide.metadata
                   /\ current_slide'.title = current_slide.title
                   /\ current_slide'.type = current_slide.type
      ]_vars

\* a slide body made of the opening fragment tagged py, one fenced line that
\* reads like a new-slide line, a bullet line or a metadata line, and the closing
\* fragment
Wit_C2_FencedBlock ==
    /\ pc = "parse"
    /\ current_slide # None
    /\ slides = <<>>
    /\ current_slide.metadata = <<>>
    /\ Len(current_slide.content) = 3
    /\ current_slide.content[1] =
           <<"<", "p", "r", "e", ">", "<", "c", "o", "d", "e", " ", "c", "l", "a", "s", "s",
             "=", "\"", "p", "y", "\"", " ", "d", "a", "t", "a", "-", "t", "r", "i", "m", ">">>
    /\ current_slide.content[2] \in {<<"#", " ", "A">>, <<" ", "-", "b", ":">>,
                                     <<"T", "i", "t", "l", "e", ":", " ", "X">>}
    /\ current_slide.content[3] = PRE_CLOSE

(***************************************************************************)
(* C3: a slide that a new-slide marker line commits to the result has no   *)
(* open list: a list-close fragment was appended to its body first.        *)
(***************************************************************************)
CE_C3_CommittedSlidesClosed ==
    pc = "parse" => \A k \in 1..Len(slides) : ~HasOpenUl(slides[k].content)

(***************************************************************************)
(* C4: at end of input, a slide under construction whose last fragment is  *)
(* a list item of an unclosed list gets a list-close fragment, and the     *)
(* slide is appended to the result in every case.                          *)
(***************************************************************************)
Thm_C4_EndOfInputClosesList ==
    [][(pc = "parse" /\ pc' = "parsed" /\ current_slide # None) =>
        LET body == current_slide.content
        IN  /\ slides' = Append(slides, current_slide')
            /\ (body # <<>> /\ IsListItem(body[Len(body)]) /\ HasOpenUl(body)) =>
                   current_slide'.content = Append(body, UL_CLOSE)
            /\ current_slide'.title = current_slide.title
            /\ current_slide'.type = current_slide.type
            /\ current_slide'.metadata = current_slide.metadata
      ]_vars

\* the parse is over and the last slide holds an opened list, an item and the
\* list-close fragment that the end of input added
Wit_C4_ListClosedAtEnd ==
    /\ pc = "parsed"
    /\ slides # <<>>
    /\ idx = Len(lines) + 1
    /\ startswith(strip(lines[Len(lines)]), <<"-">>)
    /\ LET body == slides[Len(slides)].content
       IN  /\ Len(body) >= 3
           /\ body[Len(body)] = UL_CLOSE
           /\ IsListItem(body[Len(body) - 1])
           /\ body[1] = UL_OPEN

(***************************************************************************)
(* C5: within one slide, a run of n >= 1 consecutive bullet lines followed *)
(* by a plain non-blank line yields the list-open fragment, the n items in *)
(* source order, the list-close fragment and one paragraph: the first      *)
(* bullet of a run opens the list and adds its item, a later bullet adds   *)
(* its item alone, and the plain line closes the list before its           *)
(* paragraph.                                                              *)
(***************************************************************************)
IsBulletLine(line) == startswith(strip(line), <<"-">>)

IsPlainLine(line) ==
    /\ strip(line) # <<>>
    /\ ~contains(line, ":")
    /\ ~startswith(line, <<"#", " ">>)
    /\ ~startswith(line, <<"#", "#", " ">>)
    /\ ~IsBulletLine(line)

\* the list item of a bullet line: the marker stripped, the text trimmed
ItemOf(line) ==
    <<" ", " ", "<", "l", "i", ">">> \o strip(Tail(strip(line))) \o <<"<", "/", "l", "i", ">">>

ParagraphOf(line) == <<"<", "p", ">">> \o strip(line) \o <<"<", "/", "p", ">">>

\* the line read before this one was a bullet line of the same slide
AfterBullet == idx > 1 /\ IsBulletLine(lines[idx - 1])

CE_C5_RunBracketed ==
    [][ReadsOutside =>
        LET line == lines[idx]
            body == current_slide.content
        IN  /\ (IsBulletLine(line) /\ ~AfterBullet) =>
                   current_slide'.content = body \o <<UL_OPEN, ItemOf(line)>>
            /\ (IsBulletLine(line) /\ AfterBullet) =>
                   current_slide'.content = Append(body, ItemOf(line))
            /\ (IsPlainLine(line) /\ AfterBullet) =>
                   current_slide'.content = body \o <<UL_CLOSE, ParagraphOf(line)>>
      ]_vars

(***************************************************************************)
(* C6: metadata keys.  As claimed: a metadata line whose trimmed key is    *)
(* title, subtitle, author or date in any letter case stores its trimmed   *)
(* value under the lower-case key.  As the code has it: only the keys      *)
(* written exactly Title, Subtitle, Author, Date store their value, under  *)
(* the lower-case key; any other key, a recognized one in another letter   *)
(* case included, leaves the metadata as it was.                           *)
(***************************************************************************)
\* a line of the shape key: value, which is no bullet, marker or heading line
IsMetadataLine(line) ==
    /\ contains(line, ":")
    /\ ~IsBulletLine(line)
    /\ ~startswith(line, <<"#", " ">>)
    /\ ~startswith(line, <<"#", "#", " ">>)

KeyOf(line) == strip(split_first(line, ":")[1])
ValueOf(line) == strip(split_first(line, ":")[2])

\* the recognized keys and the keys they are stored under
StoredAs ==
    (<<"T", "i", "t", "l", "e">> :> <<"t", "i", "t", "l", "e">>)
    @@ (<<"S", "u", "b", "t", "i", "t", "l", "e">> :> <<"s", "u", "b", "t", "i", "t", "l", "e">>)
    @@ (<<"A", "u", "t", "h", "o", "r">> :> <<"a", "u", "t", "h", "o", "r">>)
    @@ (<<"D", "a", "t", "e">> :> <<"d", "a", "t", "e">>)

LowerKeys == {StoredAs[K] : K \in DOMAIN StoredAs}

CE_C6_AnyCaseStored ==
    [][(ReadsOutside /\ IsMetadataLine(lines[idx]) /\ lower(KeyOf(lines[idx])) \in LowerKeys) =>
        /\ lower(KeyOf(lines[idx])) \in DOMAIN current_slide'.metadata
        /\ current_slide'.metadata[lower(KeyOf(lines[idx]))] = ValueOf(lines[idx])
      ]_vars

Thm_C6_ExactCaseStored ==
    [][(ReadsOutside /\ IsMetadataLine(lines[idx])) =>
        LET key == KeyOf(lines[idx])
            md  == current_slide.metadata
        IN  IF key \in DOMAIN StoredAs
            THEN /\ DOMAIN current_slide'.metadata = DOMAIN md \cup {StoredAs[key]}
                 /\ current_slide'.metadata[StoredAs[key]] = ValueOf(lines[idx])
            ELSE current_slide'.metadata = md
      ]_vars

\* the line just read has the key title in lower case and stored nothing, while
\* the Author line before it stored its value
Wit_C6_LowerCaseKeyIgnored ==
    /\ pc = "parse"
    /\ idx = 4
    /\ current_slide # None
    /\ Outside(lines, 3)
    /\ IsMetadataLine(lines[3])
    /\ KeyOf(lines[3]) = <<"t", "i", "t", "l", "e">>
    /\ DOMAIN current_slide.metadata = {<<"a", "u", "t", "h", "o", "r">>}
    /\ current_slide.metadata[<<"a", "u", "t", "h", "o", "r">>] = <<"Z", ":", "w">>

(***************************************************************************)
(* C7: metadata is last-write-wins per key: after parsing, a slide's value *)
(* for a recognized key is the value of the last metadata line with that   *)
(* key in the slide's block, whatever lines with other keys the block      *)
(* holds; a key no line of the block sets is absent.                       *)
(***************************************************************************)
\* the slide whose block line i lies in: the marker lines up to line i
BlockOf(ls, i) == Cardinality({j \in 1..i : IsMarker(ls, j)})

\* the metadata lines with key K in the block of slide k
MetadataLinesOf(ls, k, K) ==
    {i \in 1..Len(ls) : /\ Outside(ls, i)
                        /\ IsMetadataLine(ls[i])
                        /\ BlockOf(ls, i) = k
                        /\ KeyOf(ls[i]) = K}

Last(S) == CHOOSE i \in S : \A j \in S : j <= i

Thm_C7_LastWriteWins ==
    pc = "parsed" =>
        \A k \in 1..Len(slides) : \A K \in DOMAIN StoredAs :
            LET set == MetadataLinesOf(lines, k, K)
                md  == slides[k].metadata
            IN  IF set = {}
                THEN StoredAs[K] \notin DOMAIN md
                ELSE /\ StoredAs[K] \in DOMAIN md
                     /\ md[StoredAs[K]] = ValueOf(lines[Last(set)])

\* a block with two Title lines of different values and an Author line: the
\* title is the second value and the author is kept
Wit_C7_TitleOverwritten ==
    /\ pc = "parsed"
    /\ Len(slides) = 1
    /\ Len(lines) = 4
    /\ Cardinality(MetadataLinesOf(lines, 1, <<"T", "i", "t", "l", "e">>)) = 2
    /\ IsMetadataLine(lines[2])
    /\ DOMAIN slides[1].metadata = {<<"t", "i", "t", "l", "e">>, <<"a", "u", "t", "h", "o", "r">>}
    /\ ValueOf(lines[2]) = <<"X">>
    /\ KeyOf(lines[2]) = <<"T", "i", "t", "l", "e">>
    /\ slides[1].metadata[<<"t", "i", "t", "l", "e">>] = <<"Y">>
    /\ slides[1].metadata[<<"a", "u", "t", "h", "o", "r">>] = <<"Z", ":", "w">>

(***************************************************************************)
(* C8: metadata and the kind of a slide.  As claimed: every Content slide  *)
(* of a result has an empty metadata map.  As the code has it: metadata is *)
(* stored on the slide under construction whatever its kind, so a Content  *)
(* slide has an empty metadata map exactly when its block holds no         *)
(* metadata line with a recognized key.                                    *)
(***************************************************************************)
CE_C8_ContentSlidesNoMetadata ==
    pc = "parsed" =>
        \A k \in 1..Len(slides) : slides[k].type = "content" => slides[k].metadata = <<>>

Thm_C8_ContentSlidesKeepMetadata ==
    pc = "parsed" =>
        \A k \in 1..Len(slides) :
            slides[k].type = "content" =>
                (slides[k].metadata = <<>>
                    <=> \A K \in DOMAIN StoredAs : MetadataLinesOf(lines, k, K) = {})

\* a Content slide came out with a title in its metadata
Wit_C8_ContentSlideWithMetadata ==
    /\ pc = "parsed"
    /\ \E k \in 1..Len(slides) :
           /\ slides[k].type = "content"
           /\ DOMAIN slides[k].metadata = {<<"t", "i", "t", "l", "e">>}
           /\ MetadataLinesOf(lines, k, <<"T", "i", "t", "l", "e">>) # {}

(***************************************************************************)
(* C9: a line outside a fenced block that contains a colon, is no bullet,  *)
(* new-slide or sub-heading line, and whose key is none of the four        *)
(* recognized keys is dropped: reading it leaves the slide under           *)
(* construction, the result and the code-block state as they were.         *)
(***************************************************************************)
Thm_C9_UnknownKeyDropped ==
    [][(/\ pc = "parse"
        /\ idx <= Len(lines)
        /\ ~in_code_block
        /\ ~startswith(strip(lines[idx]), FENCE)
        /\ IsMetadataLine(lines[idx])
        /\ KeyOf(lines[idx]) \notin DOMAIN StoredAs) =>
            /\ current_slide' = current_slide
            /\ slides' = slides
            /\ in_code_block' = in_code_block
            /\ code_lang' = code_lang
            /\ idx' = idx + 1
      ]_vars

\* the line just read, with a key that is none of the four, left a slide body
\* with an open list as it was: no paragraph, no list-close fragment
Wit_C9_UnknownKeyAfterBullet ==
    /\ pc = "parse"
    /\ idx = 4
    /\ Outside(lines, 3)
    /\ IsMetadataLine(lines[3])
    /\ KeyOf(lines[3]) = <<"k">>
    /\ current_slide # None
    /\ Len(current_slide.content) = 2
    /\ current_slide.content[1] = UL_OPEN
    /\ current_slide.metadata = <<>>

(***************************************************************************)
(* C10: when parsing yields no slide, create_presentation prints the error *)
(* and returns False without writing the document and main exits with      *)
(* status 1; when it yields a slide, the document is written and main      *)
(* exits with status 0.                                                    *)
(***************************************************************************)
Thm_C10_ExitStatus ==
    (pc \in {"returned", "exit"} /\ lines # <<>>) =>
        /\ slides = <<>> =>
               /\ ~success
               /\ output_file = None
               /\ stdout = <<"Error: No slides found in outline">>
               /\ (pc = "exit" => exit_status = 1)
        /\ slides # <<>> =>
               /\ success
               /\ output_file # None
               /\ output_file.type = "html"
               /\ Len(output_file.sections) >= 2 * Len(slides)
               /\ (pc = "exit" => exit_status = 0)

\* main has exited after an outline without any new-slide line was parsed
Wit_C10_EmptyDeckExit ==
    /\ pc = "exit"
    /\ lines # <<>>
    /\ slides = <<>>
    /\ exit_status = 1
    /\ output_file = None

(***************************************************************************)
(* The program on title-slide outlines: a '# Title Slide' line followed by *)
(* metadata lines, some with an empty value, and bullet lines.             *)
(***************************************************************************)
MaxTitleLines == 4

TitleSlideLines == {
    <<"T", "i", "t", "l", "e", ":", " ", "X">>,                      \* 'Title: X'
    <<"T", "i", "t", "l", "e", ":">>,                                \* 'Title:'
    <<"S", "u", "b", "t", "i", "t", "l", "e", ":", " ", "S">>,       \* 'Subtitle: S'
    <<"S", "u", "b", "t", "i", "t", "l", "e", ":">>,                 \* 'Subtitle:'
    <<" ", "A", "u", "t", "h", "o", "r", " ", ":", " ", "Z", ":", "w">>, \* ' Author : Z:w'
    <<"D", "a", "t", "e", ":", " ", "D">>,                           \* 'Date: D'
    <<"D", "a", "t", "e", ":">>,                                     \* 'Date:'
    <<"-", " ", "a">>                                                \* '- a'
}

TitleOutlines ==
    {<<<<"#", " ", "T", "i", "t", "l", "e", " ", "S", "l", "i", "d", "e">>>> \o rest :
        rest \in UNION {[1..n -> TitleSlideLines] : n \in 0..MaxTitleLines}}

InitRender ==
    /\ Init
    /\ argv_len = 3
    /\ outline_exists

\* ReadOutline on a title-slide outline
ReadTitleOutline ==
    /\ pc = "main"
    /\ argv_len = 3
    /\ outline_exists
    /\ lines' \in TitleOutlines
    /\ idx' = 1
    /\ slides' = <<>>
    /\ current_slide' = None
    /\ in_code_block' = FALSE
    /\ code_lang' = NoLang
    /\ pc' = "parse"
    /\ UNCHANGED <<argv_len, outline_exists, success, output_file, stdout, exit_status>>

\* the steps the program takes on these outlines
NextRender ==
    \/ ReadTitleOutline
    \/ NewSlide
    \/ Metadata
    \/ Bullet
    \/ ParseEnd
    \/ CreateWrite
    \/ MainExit

SpecRender == InitRender /\ [][NextRender]_vars

(***************************************************************************)
(* C11: the html of a Title slide.  As claimed: one section holding the    *)
(* heading from metadata.title, or the default placeholder when the title  *)
(* is absent; a sub-heading if and only if metadata.subtitle is present;   *)
(* a byline block if and only if author or date is present, holding the    *)
(* present ones, author before date; no body fragment.  As the code has    *)
(* it: a subtitle, author or date counts only when it is present and not   *)
(* the empty string.                                                       *)
(***************************************************************************)
\* the lines of a Title slide's section, given which optional parts are shown
TitleSectionOf(md, with_subtitle, with_author, with_date) ==
    LET ind8  == <<" ", " ", " ", " ", " ", " ", " ", " ">>
        ind10 == <<" ", " ", " ", " ", " ", " ", " ", " ", " ", " ">>
        title == IF <<"t", "i", "t", "l", "e">> \in DOMAIN md
                 THEN md[<<"t", "i", "t", "l", "e">>]
                 ELSE <<"P", "r", "e", "s", "e", "n", "t", "a", "t", "i", "o", "n",
                        " ", "T", "i", "t", "l", "e">>
    IN  <<<<" ", " ", " ", " ", " ", " ", "<", "s", "e", "c", "t", "i", "o", "n", ">">>,
          ind8 \o <<"<", "h", "1", ">">> \o title \o <<"<", "/", "h", "1", ">">>>>
        \o (IF with_subtitle
            THEN <<ind8 \o <<"<", "h", "3", ">">>
                   \o md[<<"s", "u", "b", "t", "i", "t", "l", "e">>]
                   \o <<"<", "/", "h", "3", ">">>>>
            ELSE <<>>)
        \o (IF with_author \/ with_date
            THEN <<ind8 \o <<"<", "p", ">">>>>
                 \o (IF with_author
                     THEN <<ind10 \o <<"<", "s", "m", "a", "l", "l", ">">>
                            \o md[<<"a", "u", "t", "h", "o", "r">>]
                            \o <<"<", "/", "s", "m", "a", "l", "l", ">", "<", "b", "r", ">">>>>
                     ELSE <<>>)
                 \o (IF with_date
                     THEN <<ind10 \o <<"<", "s", "m", "a", "l", "l", ">">>
                            \o md[<<"d", "a", "t", "e">>]
                            \o <<"<", "/", "s", "m", "a", "l", "l", ">">>>>
                     ELSE <<>>)
                 \o <<ind8 \o <<"<", "/", "p", ">">>>>
            ELSE <<>>)
        \o <<<<" ", " ", " ", " ", " ", " ", "<", "/", "s", "e", "c", "t", "i", "o", "n", ">">>>>

IsPresent(md, k) == k \in DOMAIN md
IsNonEmpty(md, k) == k \in DOMAIN md /\ md[k] # <<>>

\* the document of a deck made of one Title slide has been written
TitleDeckWritten ==
    /\ pc \in {"returned", "exit"}
    /\ Len(slides) = 1
    /\ slides[1].type = "title"
    /\ output_file # None

CE_C11_PresentPartsShown ==
    TitleDeckWritten =>
        LET md == slides[1].metadata
        IN  output_file.sections =
                TitleSectionOf(md, IsPresent(md, <<"s", "u", "b", "t", "i", "t", "l", "e">>),
                                   IsPresent(md, <<"a", "u", "t", "h", "o", "r">>),
                                   IsPresent(md, <<"d", "a", "t", "e">>))

Thm_C11_NonEmptyPartsShown ==
    TitleDeckWritten =>
        LET md == slides[1].metadata
        IN  output_file.sections =
                TitleSectionOf(md, IsNonEmpty(md, <<"s", "u", "b", "t", "i", "t", "l", "e">>),
                                   IsNonEmpty(md, <<"a", "u", "t", "h", "o", "r">>),
                                   IsNonEmpty(md, <<"d", "a", "t", "e">>))

\* a Title slide with an empty title, an empty subtitle, an author, no date and
\* a body was rendered: heading, byline with the author alone, nothing else
Wit_C11_EmptySubtitleAuthorOnly ==
    /\ TitleDeckWritten
    /\ slides[1].content # <<>>
    /\ DOMAIN slides[1].metadata = {<<"t", "i", "t", "l", "e">>,
                                    <<"s", "u", "b", "t", "i", "t", "l", "e">>,
                                    <<"a", "u", "t", "h", "o", "r">>}
    /\ slides[1].metadata[<<"t", "i", "t", "l", "e">>] = <<>>
    /\ slides[1].metadata[<<"s", "u", "b", "t", "i", "t", "l", "e">>] = <<>>
    /\ Len(output_file.sections) = 6

(***************************************************************************)
(* C12: a blank line read while the slide under construction has an open   *)
(* list closes that list: it appends a list-close fragment, so that bullet *)
(* lines on both sides of a blank line give two bracketed lists.           *)
(***************************************************************************)
CE_C12_BlankLineClosesList ==
    [][(ReadsOutside /\ strip(lines[idx]) = <<>> /\ HasOpenUl(current_slide.content)) =>
        current_slide'.content = Append(current_slide.content, UL_CLOSE)
      ]_vars

(***************************************************************************)
(* C13: list bracketing is balanced in every slide of a result: in each    *)
(* body the list-open and list-close fragments alternate, starting with a  *)
(* list-open and ending with a list-close one, and every list item lies    *)
(* between a list-open fragment and its list-close fragment.               *)
(***************************************************************************)
\* fragments i.. of body c are balanced, a list being open or not before them
RECURSIVE BalancedFrom(_, _, _)
BalancedFrom(c, i, open) ==
    IF i > Len(c) THEN ~open
    ELSE IF c[i] = UL_OPEN THEN ~open /\ BalancedFrom(c, i + 1, TRUE)
    ELSE IF c[i] = UL_CLOSE THEN open /\ BalancedFrom(c, i + 1, FALSE)
    ELSE IF IsListItem(c[i]) THEN open /\ BalancedFrom(c, i + 1, open)
    ELSE BalancedFrom(c, i + 1, open)

CE_C13_ListsBalanced ==
    pc = "parsed" => \A k \in 1..Len(slides) : BalancedFrom(slides[k].content, 1, FALSE)

(***************************************************************************)
(* The program on outlines whose fenced blocks hold lines that read like   *)
(* the parser's own list fragments.                                        *)
(***************************************************************************)
MaxFencedLines == 5

FencedBlockLines == {
    <<"#", " ", "A">>,                                               \* '# A'
    <<"-", " ", "a">>,                                               \* '- a'
    <<"p">>,                                                         \* 'p'
    <<"~", "~", "~">>,                                               \* bare fence
    <<"<", "u", "l", ">">>,                                          \* '<ul>'
    <<"<", "/", "u", "l", ">">>,                                     \* '</ul>'
    <<" ", " ", "<", "l", "i", ">", "x", "<", "/", "l", "i", ">">>   \* '  <li>x</li>'
}

FencedOutlines == UNION {[1..n -> FencedBlockLines] : n \in 1..MaxFencedLines}

\* ReadOutline on such an outline
ReadFencedOutline ==
    /\ pc = "main"
    /\ argv_len = 3
    /\ outline_exists
    /\ lines' \in FencedOutlines
    /\ idx' = 1
    /\ slides' = <<>>
    /\ current_slide' = None
    /\ in_code_block' = FALSE
    /\ code_lang' = NoLang
    /\ pc' = "parse"
    /\ UNCHANGED <<argv_len, outline_exists, success, output_file, stdout, exit_status>>

\* the steps the program takes on these outlines
NextFenced ==
    \/ ReadFencedOutline
    \/ Fence
    \/ CodeLine
    \/ NewSlide
    \/ Bullet
    \/ CloseList
    \/ Regular
    \/ ParseEnd
    \/ CreateNoSlides
    \/ CreateWrite
    \/ MainExit

SpecFenced == InitRender /\ [][NextFenced]_vars

(***************************************************************************)
(* The parser of the design note: parse_outline with the two backward      *)
(* scans replaced by a list-open flag kept with the slide under            *)
(* construction -- set when the parser appends a list-open fragment,       *)
(* cleared when it appends a list-close fragment, false for a fresh slide. *)
(***************************************************************************)
flag_init == [slides |-> <<>>, cs |-> None, in_code |-> FALSE, open |-> FALSE]

\* one line read by the flag parser in state st
flag_step(st, line) ==
    LET branch == Branch(line, st.in_code, st.cs)
    IN  CASE branch = "fence" ->
                 [st EXCEPT !.in_code = ~st.in_code,
                            !.cs = IF ~st.in_code
                                   THEN append_content(st.cs, pre_open(fence_lang(line)))
                                   ELSE append_content(st.cs, PRE_CLOSE)]
          [] branch = "code" -> [st EXCEPT !.cs = append_content(st.cs, line)]
          [] branch = "slide" ->
                 [st EXCEPT !.slides = commit(st.slides, st.cs),
                            !.cs = new_slide(line),
                            !.open = FALSE]
          [] branch = "heading" -> [st EXCEPT !.cs = append_content(st.cs, h2(line))]
          [] branch = "metadata" -> [st EXCEPT !.cs = set_metadata(st.cs, line)]
          [] branch = "bullet" ->
                 IF truthy(st.cs)
                 THEN [st EXCEPT !.cs = append_content(
                                            IF st.open THEN st.cs
                                            ELSE append_content(st.cs, UL_OPEN),
                                            li(line)),
                                 !.open = TRUE]
                 ELSE st
          [] branch = "close_list" ->
                 IF st.open /\ strip(line) # <<>>
                 THEN [st EXCEPT !.cs = append_content(append_content(st.cs, UL_CLOSE),
                                                       p(line)),
                                 !.open = FALSE]
                 ELSE IF strip(line) # <<>>
                 THEN [st EXCEPT !.cs = append_content(st.cs, p(line))]
                 ELSE st
          [] branch = "regular" -> [st EXCEPT !.cs = append_content(st.cs, p(line))]
          [] OTHER -> st

\* the end of input for the flag parser: the last slide is closed and added
flag_end(st) ==
    IF truthy(st.cs)
    THEN LET last == close_last(st.cs)
         IN  [st EXCEPT !.cs = last,
                        !.slides = Append(st.slides, last),
                        !.open = IF last = st.cs THEN st.open ELSE FALSE]
    ELSE st

\* the flag parser after the first n lines of ls
RECURSIVE flag_run(_, _)
flag_run(ls, n) == IF n = 0 THEN flag_init ELSE flag_step(flag_run(ls, n - 1), ls[n])

(***************************************************************************)
(* C14: the backward scan is equivalent to the list-open flag: run side by *)
(* side on any outline, fenced lines that read like list fragments         *)
(* included, parse_outline and the flag parser hold the same slide under   *)
(* construction and the same committed slides after every line, and return *)
(* the same slides.                                                        *)
(***************************************************************************)
CE_C14_ScanEqualsFlag ==
    /\ pc = "parse" =>
           LET f == flag_run(lines, idx - 1)
           IN  /\ f.cs = current_slide
               /\ f.slides = slides
               /\ f.in_code = in_code_block
    /\ pc = "parsed" => flag_end(flag_run(lines, Len(lines))).slides = slides

====
